---- MODULE Spec2Model ----
(***************************************************************************)
(* DB-Chatlink: question -> SQL -> rows -> natural-language response.      *)
(* Python strings are modelled as sequences of one-character strings, so   *)
(* that lower(), "in", split(), strip(), startswith(), ljust() and len()   *)
(* are computed character by character as the interpreter computes them.   *)
(***************************************************************************)
EXTENDS Integers, Sequences, FiniteSets, TLC

VARIABLES
    pc,            \* where the operation, or the loop of main, stands
    question,      \* the question typed
    columns,       \* the columns argument of the operation
    rows,          \* the rows argument of the operation
    limit,         \* the limit argument of format_tabular_data
    model_loaded,  \* whether the module-level model and tokenizer were loaded
    model_sql,     \* what generate_sql_with_model returned in this iteration
    sql_query,     \* what question_to_sql returned in this iteration
    exec,          \* what execute_sql returned in this iteration
    result,        \* what the operation returned
    printed,       \* the messages printed in this iteration
    calls,         \* the functions called in this iteration, in call order
    fetched        \* what fetch_user_details returned, if it was called

main_vars == <<model_loaded, model_sql, sql_query, exec, printed>>

vars == <<pc, question, columns, rows, limit, result, calls, fetched, main_vars>>

-----------------------------------------------------------------------------
(* String literals of the source, as character sequences.                  *)

KwCount == <<"c", "o", "u", "n", "t">>
KwHowMany == <<"h", "o", "w", " ", "m", "a", "n", "y">>
KwList == <<"l", "i", "s", "t">>
KwShow == <<"s", "h", "o", "w">>
KwAll == <<"a", "l", "l">>
KwDetailsOf == <<"d", "e", "t", "a", "i", "l", "s", " ", "o", "f">>
PfxAvg == <<"a", "v", "g">>
PfxSum == <<"s", "u", "m">>
PfxMax == <<"m", "a", "x">>
PfxMin == <<"m", "i", "n">>
KwUser == <<"u", "s", "e", "r">>
KwStudent == <<"s", "t", "u", "d", "e", "n", "t">>
KwInternship == <<"i", "n", "t", "e", "r", "n", "s", "h", "i", "p">>
KwJob == <<"j", "o", "b">>
KwApplication == <<"a", "p", "p", "l", "i", "c", "a", "t", "i", "o", "n">>
KwApplied == <<"a", "p", "p", "l", "i", "e", "d">>
EntUsers == <<"u", "s", "e", "r", "s">>
EntInternships == <<"i", "n", "t", "e", "r", "n", "s", "h", "i", "p", "s">>
EntApplications == <<"a", "p", "p", "l", "i", "c", "a", "t", "i", "o", "n", "s">>
EntItems == <<"i", "t", "e", "m", "s">>
NoneText == <<"N", "o", "n", "e">>
NoDataFound == <<"N", "o", " ", "d", "a", "t", "a", " ", "f", "o", "u", "n", "d", ".">>
MoreRowsPrefix == <<".", ".", ".", " ", "a", "n", "d", " ">>
MoreRowsSuffix == <<" ", "m", "o", "r", "e", " ", "r", "o", "w", "s">>
ColSep == <<" ", "|", " ">>
NoRecordPrefix == <<"N", "o", " ", "r", "e", "c", "o", "r", "d", " ", "f", "o", "u", "n", "d", " ", "f", "o", "r", " ">>
RuleBasedSql == <<"S", "E", "L", "E", "C", "T", " ", "*", " ", "F", "R", "O", "M", " ", "u", "s", "e", "r", "_", "d", "e", "t", "a", "i", "l", "s", ";">>
ExitWord == <<"e", "x", "i", "t">>
QuitWord == <<"q", "u", "i", "t">>
AffectedRows == <<"a", "f", "f", "e", "c", "t", "e", "d", "_", "r", "o", "w", "s">>

-----------------------------------------------------------------------------
(* The str methods the source uses.                                         *)

UpperChars == <<"A", "B", "C", "D", "E", "F", "G", "H", "I", "J", "K", "L", "M",
                "N", "O", "P", "Q", "R", "S", "T", "U", "V", "W", "X", "Y", "Z">>

LowerChars == <<"a", "b", "c", "d", "e", "f", "g", "h", "i", "j", "k", "l", "m",
                "n", "o", "p", "q", "r", "s", "t", "u", "v", "w", "x", "y", "z">>

Whitespace == {" ", "\t", "\n", "\r"}

\* str.lower() on one character
LowerChar(c) ==
    IF \E i \in 1..Len(UpperChars) : UpperChars[i] = c
    THEN LowerChars[CHOOSE i \in 1..Len(UpperChars) : UpperChars[i] = c]
    ELSE c

\* str.upper() on one character
UpperChar(c) ==
    IF \E i \in 1..Len(LowerChars) : LowerChars[i] = c
    THEN UpperChars[CHOOSE i \in 1..Len(LowerChars) : LowerChars[i] = c]
    ELSE c

IsLetter(c) ==
    \E i \in 1..Len(LowerChars) : LowerChars[i] = c \/ UpperChars[i] = c

\* s.lower()
Lower(s) == [i \in 1..Len(s) |-> LowerChar(s[i])]

\* sub occurs in s at index i (1-based)
OccursAt(sub, s, i) ==
    /\ i >= 1
    /\ i + Len(sub) - 1 <= Len(s)
    /\ SubSeq(s, i, i + Len(sub) - 1) = sub

\* sub in s
Contains(sub, s) == \E i \in 1..(Len(s) + 1) : OccursAt(sub, s, i)

\* s.find(sub) + 1: the index of the leftmost occurrence, 0 when there is none
RECURSIVE FindFrom(_, _, _)
FindFrom(sub, s, i) ==
    IF i + Len(sub) - 1 > Len(s) THEN 0
    ELSE IF OccursAt(sub, s, i) THEN i
    ELSE FindFrom(sub, s, i + 1)

Find(sub, s) == FindFrom(sub, s, 1)

\* s.split(sep) for a non-empty sep: every piece between the non-overlapping
\* occurrences of sep found from left to right
RECURSIVE Split(_, _)
Split(s, sep) ==
    LET i == Find(sep, s)
    IN  IF i = 0
        THEN <<s>>
        ELSE <<SubSeq(s, 1, i - 1)>> \o Split(SubSeq(s, i + Len(sep), Len(s)), sep)

\* s.strip()
RECURSIVE LStrip(_)
LStrip(s) ==
    IF s # <<>> /\ Head(s) \in Whitespace THEN LStrip(Tail(s)) ELSE s

RECURSIVE RStrip(_)
RStrip(s) ==
    IF s # <<>> /\ s[Len(s)] \in Whitespace
    THEN RStrip(SubSeq(s, 1, Len(s) - 1))
    ELSE s

Strip(s) == RStrip(LStrip(s))

\* s.startswith(prefix)
StartsWith(s, prefix) == OccursAt(prefix, s, 1)

\* s.ljust(width)
LJust(s, width) ==
    IF Len(s) >= width THEN s ELSE s \o [i \in 1..(width - Len(s)) |-> " "]

\* sep.join(parts)
RECURSIVE Join(_, _)
Join(sep, parts) ==
    IF parts = <<>> THEN <<>>
    ELSE IF Len(parts) = 1 THEN parts[1]
    ELSE parts[1] \o sep \o Join(sep, Tail(parts))

\* s.replace(old, new) for one-character old and new
ReplaceChar(s, old, new) == [i \in 1..Len(s) |-> IF s[i] = old THEN new ELSE s[i]]

\* s.title(): a letter is upper-cased after a non-letter, lower-cased after a letter
Title(s) ==
    [i \in 1..Len(s) |->
        IF i > 1 /\ IsLetter(s[i - 1]) THEN LowerChar(s[i]) ELSE UpperChar(s[i])]

Digits == <<"0", "1", "2", "3", "4", "5", "6", "7", "8", "9">>

\* str(n) for an int
RECURSIVE NatStr(_)
NatStr(n) ==
    IF n < 10 THEN <<Digits[n + 1]>>
    ELSE NatStr(n \div 10) \o <<Digits[(n % 10) + 1]>>

IntStr(n) == IF n < 0 THEN <<"-">> \o NatStr(-n) ELSE NatStr(n)

-----------------------------------------------------------------------------
(* Scalar values of a result row: None, an int or a str.                    *)

NoneVal == [t |-> "none", n |-> 0, s |-> <<>>]
IntVal(k) == [t |-> "int", n |-> k, s |-> <<>>]
StrVal(x) == [t |-> "str", n |-> 0, s |-> x]

\* Python None / a present value, for results that may be absent
None == <<>>
Some(x) == <<x>>

format_value(value) ==
    IF value.t = "none" THEN NoneText
    ELSE IF value.t = "int" THEN IntStr(value.n)
    ELSE value.s

-----------------------------------------------------------------------------
(* The classifiers.                                                         *)

\* identify_query_type with the aggregation test moved ahead of the one-row test
identify_query_type_agg_first(q, cols, rws) ==
    LET lq == Lower(q)
    IN  IF /\ (Contains(KwCount, lq) \/ Contains(KwHowMany, lq))
           /\ Len(cols) = 1 /\ Len(rws) = 1
        THEN "count"
        ELSE IF \E i \in 1..Len(cols) :
                    \E p \in {PfxAvg, PfxSum, PfxMax, PfxMin} :
                        StartsWith(Lower(cols[i]), p)
        THEN "aggregation"
        ELSE IF Len(rws) = 1
        THEN "single_entity"
        ELSE IF Contains(KwList, lq) \/ Contains(KwShow, lq) \/ Contains(KwAll, lq)
        THEN "list"
        ELSE IF Len(rws) > 1
        THEN "list"
        ELSE "general"

\* identify_query_type with the one-row test asking for several columns
identify_query_type_wide_single(q, cols, rws) ==
    LET lq == Lower(q)
    IN  IF /\ (Contains(KwCount, lq) \/ Contains(KwHowMany, lq))
           /\ Len(cols) = 1 /\ Len(rws) = 1
        THEN "count"
        ELSE IF Len(rws) = 1 /\ Len(cols) > 1
        THEN "single_entity"
        ELSE IF Contains(KwList, lq) \/ Contains(KwShow, lq) \/ Contains(KwAll, lq)
        THEN "list"
        ELSE IF \E i \in 1..Len(cols) :
                    \E p \in {PfxAvg, PfxSum, PfxMax, PfxMin} :
                        StartsWith(Lower(cols[i]), p)
        THEN "aggregation"
        ELSE IF Len(rws) > 1
        THEN "list"
        ELSE "general"

\* identify_query_type with the aggregation test moved ahead of the list keywords
identify_query_type_agg_before_list(q, cols, rws) ==
    LET lq == Lower(q)
    IN  IF /\ (Contains(KwCount, lq) \/ Contains(KwHowMany, lq))
           /\ Len(cols) = 1 /\ Len(rws) = 1
        THEN "count"
        ELSE IF Len(rws) = 1
        THEN "single_entity"
        ELSE IF \E i \in 1..Len(cols) :
                    \E p \in {PfxAvg, PfxSum, PfxMax, PfxMin} :
                        StartsWith(Lower(cols[i]), p)
        THEN "aggregation"
        ELSE IF Contains(KwList, lq) \/ Contains(KwShow, lq) \/ Contains(KwAll, lq)
        THEN "list"
        ELSE IF Len(rws) > 1
        THEN "list"
        ELSE "general"

\* identify_query_type with a count rule that looks at the question only
identify_query_type_count_any_shape(q, cols, rws) ==
    LET lq == Lower(q)
    IN  IF Contains(KwCount, lq) \/ Contains(KwHowMany, lq)
        THEN "count"
        ELSE IF Len(rws) = 1
        THEN "single_entity"
        ELSE IF Contains(KwList, lq) \/ Contains(KwShow, lq) \/ Contains(KwAll, lq)
        THEN "list"
        ELSE IF \E i \in 1..Len(cols) :
                    \E p \in {PfxAvg, PfxSum, PfxMax, PfxMin} :
                        StartsWith(Lower(cols[i]), p)
        THEN "aggregation"
        ELSE IF Len(rws) > 1
        THEN "list"
        ELSE "general"

identify_query_type(q, cols, rws) ==
    LET lq == Lower(q)
    IN  IF /\ (Contains(KwCount, lq) \/ Contains(KwHowMany, lq))
           /\ Len(cols) = 1 /\ Len(rws) = 1
        THEN "count"
        ELSE IF Len(rws) = 1
        THEN "single_entity"
        ELSE IF Contains(KwList, lq) \/ Contains(KwShow, lq) \/ Contains(KwAll, lq)
        THEN "list"
        ELSE IF \E i \in 1..Len(cols) :
                    \E p \in {PfxAvg, PfxSum, PfxMax, PfxMin} :
                        StartsWith(Lower(cols[i]), p)
        THEN "aggregation"
        ELSE IF Len(rws) > 1
        THEN "list"
        ELSE "general"

\* extract_entity_name with the application test ahead of the user test
extract_entity_name_applications_first(q) ==
    LET lq == Lower(q)
    IN  IF Contains(KwApplication, lq) \/ Contains(KwApplied, lq) THEN EntApplications
        ELSE IF Contains(KwUser, lq) \/ Contains(KwStudent, lq) THEN EntUsers
        ELSE IF Contains(KwInternship, lq) \/ Contains(KwJob, lq) THEN EntInternships
        ELSE EntItems

extract_entity_name(q) ==
    LET lq == Lower(q)
    IN  IF Contains(KwUser, lq) \/ Contains(KwStudent, lq) THEN EntUsers
        ELSE IF Contains(KwInternship, lq) \/ Contains(KwJob, lq) THEN EntInternships
        ELSE IF Contains(KwApplication, lq) \/ Contains(KwApplied, lq) THEN EntApplications
        ELSE EntItems

-----------------------------------------------------------------------------
(* Response text of the templates.                                          *)

NL == <<"\n">>
TxtFoundNo == <<"I", " ", "f", "o", "u", "n", "d", " ", "n", "o", " ">>
TxtMatching == <<" ", "m", "a", "t", "c", "h", "i", "n", "g", " ", "y", "o", "u", "r", " ", "c", "r", "i", "t", "e", "r", "i", "a", ".">>
TxtThereIs1 == <<"T", "h", "e", "r", "e", " ", "i", "s", " ", "1", " ">>
TxtThereAre == <<"T", "h", "e", "r", "e", " ", "a", "r", "e", " ">>
TxtCouldNotFind == <<"I", " ", "c", "o", "u", "l", "d", "n", "'", "t", " ", "f", "i", "n", "d", " ", "a", "n", "y", " ">>
TxtHereAreThe == <<"H", "e", "r", "e", " ", "a", "r", "e", " ", "t", "h", "e", " ">>
TxtIFound == <<" ", "I", " ", "f", "o", "u", "n", "d", ":">>
TxtDetailsFor == <<"H", "e", "r", "e", " ", "a", "r", "e", " ", "t", "h", "e", " ", "d", "e", "t", "a", "i", "l", "s", " ", "f", "o", "r", " ", "t", "h", "e", " ">>
TxtSummaryAbout == <<"H", "e", "r", "e", "'", "s", " ", "t", "h", "e", " ", "r", "e", "q", "u", "e", "s", "t", "e", "d", " ", "s", "u", "m", "m", "a", "r", "y", " ", "i", "n", "f", "o", "r", "m", "a", "t", "i", "o", "n", " ", "a", "b", "o", "u", "t", " ">>
TxtResults == <<"H", "e", "r", "e", " ", "a", "r", "e", " ", "t", "h", "e", " ", "r", "e", "s", "u", "l", "t", "s", " ", "f", "o", "r", " ", "y", "o", "u", "r", " ", "q", "u", "e", "r", "y", ":">>
TxtName == <<" ", " ", " ", " ", "N", "a", "m", "e", ":", " ">>
TxtAppliedIn == <<" ", " ", " ", " ", "A", "p", "p", "l", "i", "e", "d", " ", "i", "n", " ">>
TxtInternshipsAcross == <<" ", "i", "n", "t", "e", "r", "n", "s", "h", "i", "p", "s", " ", "a", "c", "r", "o", "s", "s", " ">>
TxtCompanies == <<" ", "c", "o", "m", "p", "a", "n", "i", "e", "s", ":", " ">>
TxtSelectedIn == <<" ", " ", " ", " ", "S", "e", "l", "e", "c", "t", "e", "d", " ", "i", "n", ":", " ">>
TxtRejectedIn == <<" ", " ", " ", " ", "R", "e", "j", "e", "c", "t", "e", "d", " ", "i", "n", ":", " ">>
TxtIndent == <<" ", " ", " ", " ">>

\* limit=10, the default of format_tabular_data
DefaultLimit == 10

-----------------------------------------------------------------------------
(* format_tabular_data                                                      *)

Max2(a, b) == IF a >= b THEN a ELSE b
Min2(a, b) == IF a <= b THEN a ELSE b

\* rws[:lim]
SliceTo(rws, lim) ==
    IF lim >= 0
    THEN SubSeq(rws, 1, Min2(lim, Len(rws)))
    ELSE SubSeq(rws, 1, Max2(0, Len(rws) + lim))

RECURSIVE MaxLenOver(_, _, _)
\* the running max of col_widths[i] over the rows shown
MaxLenOver(w, shown, i) ==
    IF shown = <<>> THEN w
    ELSE MaxLenOver(IF i <= Len(Head(shown))
                    THEN Max2(w, Len(format_value(Head(shown)[i])))
                    ELSE w,
                    Tail(shown), i)

\* col_widths measured over every row, shown or not
col_widths_all_rows(cols, rws, lim) ==
    [i \in 1..Len(cols) |-> MaxLenOver(Len(cols[i]), rws, i)]

col_widths(cols, rws, lim) ==
    [i \in 1..Len(cols) |-> MaxLenOver(Len(cols[i]), SliceTo(rws, lim), i)]

table_header(cols, widths) ==
    Join(ColSep, [i \in 1..Len(cols) |-> LJust(cols[i], widths[i])])

table_separator(header) == [i \in 1..Len(header) |-> "-"]

table_row(row, widths) ==
    Join(ColSep, [i \in 1..Len(row) |-> LJust(format_value(row[i]), widths[i])])

\* "... and N more rows"
more_rows_line(rws, lim) ==
    MoreRowsPrefix \o IntStr(Len(rws) - lim) \o MoreRowsSuffix

\* formatted_rows with the trailing line added from len(rows) >= limit on
formatted_rows_at_limit(rws, lim, widths) ==
    LET shown == SliceTo(rws, lim)
    IN  [r \in 1..Len(shown) |-> table_row(shown[r], widths)]
        \o (IF Len(rws) >= lim THEN <<more_rows_line(rws, lim)>> ELSE <<>>)

\* The formatted_rows list: the rows shown, then the trailing line
formatted_rows(rws, lim, widths) ==
    LET shown == SliceTo(rws, lim)
    IN  [r \in 1..Len(shown) |-> table_row(shown[r], widths)]
        \o (IF Len(rws) > lim THEN <<more_rows_line(rws, lim)>> ELSE <<>>)

\* A row with more values than there are columns indexes col_widths out of range
TableRaises(cols, rws, lim) ==
    /\ rws # <<>>
    /\ \E r \in 1..Len(SliceTo(rws, lim)) : Len(rws[r]) > Len(cols)

format_tabular_data(cols, rws, lim) ==
    IF rws = <<>>
    THEN [raised |-> "", text |-> NoDataFound, widths |-> <<>>, header |-> <<>>,
          separator |-> <<>>, lines |-> <<>>]
    ELSE IF TableRaises(cols, rws, lim)
    THEN [raised |-> "IndexError", text |-> <<>>, widths |-> <<>>, header |-> <<>>,
          separator |-> <<>>, lines |-> <<>>]
    ELSE LET widths == col_widths(cols, rws, lim)
             header == table_header(cols, widths)
             separator == table_separator(header)
             lines == formatted_rows(rws, lim, widths)
         IN  [raised |-> "", widths |-> widths, header |-> header,
              separator |-> separator, lines |-> lines,
              text |-> header \o NL \o separator \o NL \o Join(NL, lines)]

-----------------------------------------------------------------------------
(* The response templates.  Each yields the text it returns, the functions   *)
(* it called (in call order) and the exception it raised, if any.            *)

\* s[:-1]
DropLast(s) == SubSeq(s, 1, Len(s) - 1)

Reply(text, called) == [text |-> text, calls |-> called, raised |-> ""]
Raise(exc, called) == [text |-> <<>>, calls |-> called, raised |-> exc]

generate_count_response(q, cols, rws) ==
    LET called == <<"generate_count_response", "extract_entity_name">>
        entity == extract_entity_name(q)
    IN  IF rws = <<>> \/ rws[1] = <<>>
        THEN Raise("IndexError", called)
        ELSE LET count == rws[1][1]
             IN  IF count.t = "int" /\ count.n = 0
                 THEN Reply(TxtFoundNo \o entity \o TxtMatching, called)
                 ELSE IF count.t = "int" /\ count.n = 1
                 THEN Reply(TxtThereIs1 \o DropLast(entity) \o TxtMatching, called)
                 ELSE Reply(TxtThereAre \o format_value(count) \o <<" ">> \o entity
                            \o TxtMatching, called)

\* A template that ends with the table: intro, a blank line, the table
WithTable(intro, cols, rws, called) ==
    LET table == format_tabular_data(cols, rws, DefaultLimit)
        all == called \o <<"format_tabular_data">>
    IN  IF table.raised # ""
        THEN Raise(table.raised, all)
        ELSE Reply(intro \o NL \o NL \o table.text, all)

generate_list_response(q, cols, rws) ==
    LET called == <<"generate_list_response", "extract_entity_name">>
        entity == extract_entity_name(q)
    IN  IF Len(rws) = 0
        THEN Reply(TxtCouldNotFind \o entity \o TxtMatching, called)
        ELSE WithTable(TxtHereAreThe \o IntStr(Len(rws)) \o <<" ">> \o entity \o TxtIFound,
                       cols, rws, called)

generate_single_entity_response(q, cols, rws) ==
    LET called == <<"generate_single_entity_response", "extract_entity_name">>
        entity == DropLast(extract_entity_name(q))
    IN  IF rws = <<>> \/ Len(rws[1]) < Len(cols)
        THEN Raise("IndexError", called)
        ELSE LET details == [i \in 1..Len(cols) |->
                                Title(ReplaceChar(cols[i], "_", " ")) \o <<":", " ">>
                                \o format_value(rws[1][i])]
             IN  Reply(TxtDetailsFor \o entity \o <<":">> \o NL \o NL \o Join(NL, details),
                       called)

generate_aggregation_response(q, cols, rws) ==
    WithTable(TxtSummaryAbout \o extract_entity_name(q) \o <<":">>, cols, rws,
              <<"generate_aggregation_response", "extract_entity_name">>)

generate_general_response(q, cols, rws) ==
    WithTable(TxtResults, cols, rws, <<"generate_general_response">>)

\* value if value else "None"
OrNone(value) ==
    IF value.t = "none" \/ (value.t = "str" /\ value.s = <<>>)
       \/ (value.t = "int" /\ value.n = 0)
    THEN NoneText
    ELSE format_value(value)

\* handle_user_details_query without the test of lines 217-218: the lookup's
\* None is unpacked into six names, which raises TypeError
handle_user_details_query_unguarded(name, user_info) ==
    LET called == <<"handle_user_details_query", "fetch_user_details">>
    IN  IF user_info = None
        THEN Raise("TypeError", called)
        ELSE Reply(NL \o TxtName \o format_value(user_info[1].name) \o NL, called)

\* user_info is what fetch_user_details returned: None, or Some(the 6-tuple)
handle_user_details_query(name, user_info) ==
    LET called == <<"handle_user_details_query", "fetch_user_details">>
    IN  IF user_info = None
        THEN Reply(NoRecordPrefix \o name, called)
        ELSE LET u == user_info[1]
             IN  Reply(NL \o TxtName \o format_value(u.name) \o NL
                       \o TxtAppliedIn \o format_value(u.total_internships)
                       \o TxtInternshipsAcross \o format_value(u.companies)
                       \o TxtCompanies \o format_value(u.company_list) \o NL
                       \o TxtSelectedIn \o OrNone(u.selected) \o NL
                       \o TxtRejectedIn \o OrNone(u.rejected) \o NL
                       \o TxtIndent, called)

-----------------------------------------------------------------------------
(* generate_response                                                        *)

\* The name handed to handle_user_details_query
details_user_name(q) == Strip(Split(Lower(q), KwDetailsOf)[2])

\* The template chosen for a query type
dispatch(query_type, q, cols, rws) ==
    IF query_type = "count" THEN generate_count_response(q, cols, rws)
    ELSE IF query_type = "list" THEN generate_list_response(q, cols, rws)
    ELSE IF query_type = "single_entity" THEN generate_single_entity_response(q, cols, rws)
    ELSE IF query_type = "aggregation" THEN generate_aggregation_response(q, cols, rws)
    ELSE generate_general_response(q, cols, rws)

\* asks_user_details testing the question as typed, not lower-cased
asks_user_details_as_typed(q) ==
    Contains(KwDetailsOf, q) /\ Len(Split(q, KwDetailsOf)) > 1

\* The branch that returns from handle_user_details_query
asks_user_details(q) ==
    Contains(KwDetailsOf, Lower(q)) /\ Len(Split(Lower(q), KwDetailsOf)) > 1

\* user_info is the answer fetch_user_details gives if it is asked
generate_response(q, cols, rws, user_info) ==
    IF asks_user_details(q)
    THEN LET name == details_user_name(q)
             r == handle_user_details_query(name, user_info)
         IN  [text |-> r.text, calls |-> r.calls, raised |-> r.raised,
              query_type |-> "", user_name |-> Some(name)]
    ELSE LET query_type == identify_query_type(q, cols, rws)
             r == dispatch(query_type, q, cols, rws)
         IN  [text |-> r.text, calls |-> <<"identify_query_type">> \o r.calls,
              raised |-> r.raised, query_type |-> query_type, user_name |-> None]

-----------------------------------------------------------------------------
(* Inputs.                                                                  *)

MaxFrags == 2
MaxRows == 2
MaxTableRows == 2
MaxLimit == 2

FragHowMany == <<"H", "o", "w", " ", "m", "a", "n", "y", " ">>
FragCount == <<"C", "o", "u", "n", "t">>
FragList == <<"l", "i", "s", "t", " ">>
FragShow == <<"S", "H", "O", "W">>
FragAll == <<"a", "l", "l">>
FragDetailsOf == <<" ", "D", "e", "t", "a", "i", "l", "s", " ", "o", "f", " ", " ">>
FragS == <<"s">>
FragBob == <<" ", "b", "o", "b", " ">>
FragUser == <<"U", "s", "e", "r", " ">>
FragStudent == <<"s", "t", "u", "d", "e", "n", "t">>
FragInternship == <<"i", "n", "t", "e", "r", "n", "s", "h", "i", "p">>
FragJob == <<"J", "o", "b">>
FragApplications == <<" ", "a", "p", "p", "l", "i", "c", "a", "t", "i", "o", "n", "s">>
FragApplied == <<"a", "p", "p", "l", "i", "e", "d">>

\* The questions of the module's own demonstration
QHowManyUsers == <<"H", "o", "w", " ", "m", "a", "n", "y", " ", "u", "s", "e", "r", "s", " ", "a", "r", "e", " ", "t", "h", "e", "r", "e", "?">>
QListAll == <<"L", "i", "s", "t", " ", "a", "l", "l", " ", "i", "n", "t", "e", "r", "n", "s", "h", "i", "p", "s">>
QShowDetails == <<"S", "h", "o", "w", " ", "m", "e", " ", "d", "e", "t", "a", "i", "l", "s", " ", "o", "f", " ", "u", "s", "e", "r", " ", "j", "o", "h", "n", "_", "d", "o", "e">>
QWhatAvg == <<"W", "h", "a", "t", " ", "i", "s", " ", "t", "h", "e", " ", "a", "v", "e", "r", "a", "g", "e", " ", "s", "t", "i", "p", "e", "n", "d", " ", "f", "o", "r", " ", "i", "n", "t", "e", "r", "n", "s", "h", "i", "p", "s", "?">>
QGiveInfo == <<"G", "i", "v", "e", " ", "m", "e", " ", "i", "n", "f", "o", "r", "m", "a", "t", "i", "o", "n", " ", "a", "b", "o", "u", "t", " ", "t", "h", "e", " ", "C", "o", "m", "p", "u", "t", "e", "r", " ", "S", "c", "i", "e", "n", "c", "e", " ", "i", "n", "t", "e", "r", "n", "s", "h", "i", "p">>

DemoQuestions == {QHowManyUsers, QListAll, QShowDetails, QWhatAvg, QGiveInfo}

RECURSIVE Concat(_)
Concat(parts) == IF parts = <<>> THEN <<>> ELSE Head(parts) \o Concat(Tail(parts))

\* Every text made of at most MaxFrags of the given fragments
TextsOf(frags) == {Concat(p) : p \in UNION {[1..k -> frags] : k \in 0..MaxFrags}}

\* Questions about the shape of the answer, and the user-details question
ShapeQuestions ==
    DemoQuestions \cup TextsOf({FragHowMany, FragCount, FragList, FragShow, FragAll,
                                FragDetailsOf, FragBob})

\* Questions that name an entity
EntityQuestions ==
    DemoQuestions \cup TextsOf({FragUser, FragStudent, FragInternship, FragJob,
                                FragApplications, FragApplied, FragS, FragBob})

ColCountStar == <<"c", "o", "u", "n", "t", "(", "*", ")">>
ColAvgStipend == <<"a", "v", "g", "(", "s", "t", "i", "p", "e", "n", "d", ")">>
ColId == <<"i", "d">>
ColSumSeat == <<"S", "U", "M", "(", "s", "e", "a", "t", ")">>
ColRole == <<"r", "o", "l", "e">>
ValTechCorp == <<"T", "e", "c", "h", " ", "C", "o", "r", "p">>
ValJohn == <<"J", "o", "h", "n", " ", "S", "m", "i", "t", "h">>

\* cursor.description of a query that returns rows: one name per column
ColumnLists == {<<ColCountStar>>, <<ColAvgStipend>>, <<ColId, ColSumSeat>>}

\* cursor.fetchall(): rows of len(columns) values each
RowsOf(cols) ==
    IF Len(cols) = 0
    THEN {<<>>}
    ELSE IF Len(cols) = 1
    THEN {<<IntVal(42)>>}
    ELSE {<<IntVal(5), NoneVal>>}

RowLists(cols) == UNION {[1..k -> RowsOf(cols)] : k \in 0..MaxRows}

\* generate_response takes any list of column names, the empty one included
ResponseColumnLists == ColumnLists \cup {<<>>}

\* What fetch_user_details can return: None (no such user, or a database
\* error) or the 6-tuple
UserInfo(name, total, companies, company_list, selected, rejected) ==
    [name |-> name, total_internships |-> total, companies |-> companies,
     company_list |-> company_list, selected |-> selected, rejected |-> rejected]

FetchOutcomes ==
    {None,
     Some(UserInfo(StrVal(ValJohn), IntVal(2), IntVal(2), StrVal(ValTechCorp),
                   StrVal(ValTechCorp), NoneVal)),
     Some(UserInfo(StrVal(ValJohn), IntVal(0), IntVal(0), NoneVal, NoneVal, NoneVal))}

-----------------------------------------------------------------------------
(* State shared by the specifications.                                      *)

NoResult == [text |-> <<>>, calls |-> <<>>, raised |-> "", query_type |-> "",
             user_name |-> None]

\* The variables an operation on (question, columns, rows) does not use
\* execute_sql not called yet
NoExec == [returned |-> FALSE, columns |-> None, rows |-> None]

\* fetch_user_details not called
NoFetch == [called |-> FALSE, info |-> None]

\* What fetch_user_details returned to generate_response, when the question
\* made it call handle_user_details_query
Fetched(q, user_info) ==
    IF asks_user_details(q) THEN [called |-> TRUE, info |-> user_info] ELSE NoFetch

IdleMain ==
    /\ fetched = NoFetch
    /\ model_loaded = FALSE
    /\ model_sql = None
    /\ sql_query = None
    /\ exec = NoExec
    /\ printed = <<>>

-----------------------------------------------------------------------------
(* SpecResponse: generate_response and identify_query_type applied to every  *)
(* question and result of the input sets.                                    *)

InitResponse ==
    /\ pc = "input"
    /\ question \in ShapeQuestions
    /\ columns \in ResponseColumnLists
    /\ rows \in RowLists(columns)
    /\ limit = DefaultLimit
    /\ result = NoResult
    /\ calls = <<>>
    /\ IdleMain

Classify ==
    /\ pc = "input"
    /\ pc' = "classified"
    /\ result' = [NoResult EXCEPT !.query_type = identify_query_type(question, columns, rows),
                                  !.calls = <<"identify_query_type">>]
    /\ calls' = result'.calls
    /\ UNCHANGED <<question, columns, rows, limit, fetched, main_vars>>

GenerateResponse ==
    /\ pc = "input"
    /\ pc' = "responded"
    /\ \E user_info \in (IF asks_user_details(question) THEN FetchOutcomes ELSE {None}) :
          /\ result' = generate_response(question, columns, rows, user_info)
          /\ fetched' = Fetched(question, user_info)
    /\ calls' = <<"generate_response">> \o result'.calls
    /\ UNCHANGED <<question, columns, rows, limit, main_vars>>

NextResponse == Classify \/ GenerateResponse

SpecResponse == InitResponse /\ [][NextResponse]_vars

-----------------------------------------------------------------------------
(* SpecEntity: extract_entity_name applied to every entity question.         *)

InitEntity ==
    /\ pc = "input"
    /\ question \in EntityQuestions
    /\ columns = <<>>
    /\ rows = <<>>
    /\ limit = DefaultLimit
    /\ result = NoResult
    /\ calls = <<>>
    /\ IdleMain

NameEntity ==
    /\ pc = "input"
    /\ pc' = "named"
    /\ result' = [NoResult EXCEPT !.text = extract_entity_name(question),
                                  !.calls = <<"extract_entity_name">>]
    /\ calls' = result'.calls
    /\ UNCHANGED <<question, columns, rows, limit, fetched, main_vars>>

NextEntity == NameEntity

SpecEntity == InitEntity /\ [][NextEntity]_vars

-----------------------------------------------------------------------------
(* SpecTable: format_tabular_data applied to every table of the input sets,  *)
(* and again after one value of the table is changed.                        *)

TableValues == {IntVal(7), StrVal(ValTechCorp), NoneVal}

TableColumnLists == {<<ColId>>, <<ColId, ColRole>>}

TableRowLists(cols) ==
    UNION {[1..k -> [1..Len(cols) -> TableValues]] : k \in 0..MaxTableRows}

Limits == 0..MaxLimit

InitTable ==
    /\ pc = "input"
    /\ question = <<>>
    /\ columns \in TableColumnLists
    /\ rows \in TableRowLists(columns)
    /\ limit \in Limits
    /\ result = format_tabular_data(<<>>, <<>>, 0)
    /\ calls = <<>>
    /\ IdleMain

FormatTable ==
    /\ pc = "input"
    /\ pc' = "formatted"
    /\ result' = format_tabular_data(columns, rows, limit)
    /\ calls' = <<"format_tabular_data">>
    /\ UNCHANGED <<question, columns, rows, limit, fetched, main_vars>>

\* The same call on a table that differs in one value
FormatChanged ==
    /\ pc = "formatted"
    /\ \E r \in 1..Len(rows) : \E c \in 1..Len(columns) : \E v \in TableValues :
          /\ v # rows[r][c]
          /\ rows' = [rows EXCEPT ![r][c] = v]
    /\ result' = format_tabular_data(columns, rows', limit)
    /\ UNCHANGED <<pc, question, columns, limit, calls, fetched, main_vars>>

NextTable == FormatTable \/ FormatChanged

SpecTable == InitTable /\ [][NextTable]_vars

-----------------------------------------------------------------------------
(* sql_defog: question_to_sql.                                               *)

\* x is truthy: not None and not empty
Truthy(x) == x # None /\ x[1] # <<>>

\* gen is what the tokenizer and the model do when asked: they raise, or they
\* decode a text.  When they raise, the handler of the function returns None.
\* When they decode a text, re.search is called with a pattern that does not
\* compile (its ")" is unbalanced), so it raises re.error for every text, and
\* the same handler returns None.
generate_sql_with_model(q, gen) ==
    IF gen.raised THEN None ELSE None

\* The keyword flags and the entity list are computed and dropped
generate_advanced_rule_based_sql(q) == RuleBasedSql

\* question_to_sql returning whatever generate_sql_with_model gave
question_to_sql_unchecked(q, loaded, gen) ==
    IF loaded
    THEN [sql |-> generate_sql_with_model(q, gen),
          model_sql |-> generate_sql_with_model(q, gen),
          calls |-> <<"question_to_sql", "generate_sql_with_model">>]
    ELSE [sql |-> Some(generate_advanced_rule_based_sql(q)), model_sql |-> None,
          calls |-> <<"question_to_sql", "generate_advanced_rule_based_sql">>]

\* loaded stands for "model and tokenizer"; sql is what is returned, model_sql
\* what generate_sql_with_model returned (None when it was not called)
question_to_sql(q, loaded, gen) ==
    IF loaded /\ Truthy(generate_sql_with_model(q, gen))
    THEN [sql |-> generate_sql_with_model(q, gen),
          model_sql |-> generate_sql_with_model(q, gen),
          calls |-> <<"question_to_sql", "generate_sql_with_model">>]
    ELSE [sql |-> Some(generate_advanced_rule_based_sql(q)),
          model_sql |-> IF loaded THEN generate_sql_with_model(q, gen) ELSE None,
          calls |-> IF loaded
                    THEN <<"question_to_sql", "generate_sql_with_model",
                           "generate_advanced_rule_based_sql">>
                    ELSE <<"question_to_sql", "generate_advanced_rule_based_sql">>]

-----------------------------------------------------------------------------
(* Spec: the loop of main.                                                   *)

QExitUpper == <<"E", "X", "I", "T">>
QQuitMixed == <<"Q", "u", "i", "t">>
QExitSpace == <<" ", "e", "x", "i", "t">>
ModelText == <<"S", "E", "L", "E", "C", "T", " ", "n", "a", "m", "e", " ", "F", "R", "O", "M", " ", "u", "s", "e", "r", "_", "d", "e", "t", "a", "i", "l", "s", ";">>

\* What can be typed at the prompt
TypedQuestions ==
    DemoQuestions
    \cup {ExitWord, QuitWord, QExitUpper, QQuitMixed, QExitSpace, <<>>,
          FragCount \o FragDetailsOf \o FragBob, FragList \o FragUser}

\* What the tokenizer and the model can do
GenOutcomes ==
    {[raised |-> TRUE, text |-> <<>>], [raised |-> FALSE, text |-> <<>>],
     [raised |-> FALSE, text |-> ModelText]}

\* cursor.rowcount of a statement that returns no rows
RowCounts == {0, 1}

\* user_question.lower() in ['exit', 'quit']
is_exit(q) == Lower(q) \in {ExitWord, QuitWord}

\* not columns or not rows, with only the columns tested
no_data_columns_only(e) == ~Truthy(e.columns)

\* not columns or not rows
no_data(e) == ~Truthy(e.columns) \/ ~Truthy(e.rows)

Init ==
    /\ pc = "prompt"
    /\ question = <<>>
    /\ columns = <<>>
    /\ rows = <<>>
    /\ limit = DefaultLimit
    /\ model_loaded \in BOOLEAN
    /\ model_sql = None
    /\ sql_query = None
    /\ exec = NoExec
    /\ result = NoResult
    /\ printed = <<>>
    /\ calls = <<>>
    /\ fetched = NoFetch

\* A new iteration starts with nothing of the last one
StartIteration(q) ==
    /\ question' = q
    /\ columns' = <<>>
    /\ rows' = <<>>
    /\ model_sql' = None
    /\ sql_query' = None
    /\ exec' = NoExec
    /\ result' = NoResult
    /\ calls' = <<>>
    /\ fetched' = NoFetch
    /\ UNCHANGED <<limit, model_loaded>>

\* input() returns exit or quit: the loop ends
Quit ==
    /\ pc = "prompt"
    /\ \E q \in TypedQuestions : is_exit(q) /\ StartIteration(q)
    /\ printed' = <<"Goodbye!">>
    /\ pc' = "done"

\* input() returns anything else
Ask ==
    /\ pc = "prompt"
    /\ \E q \in TypedQuestions : ~is_exit(q) /\ StartIteration(q)
    /\ printed' = <<>>
    /\ pc' = "to_sql"

\* sql_query = question_to_sql(user_question), and it is printed
QuestionToSql ==
    /\ pc = "to_sql"
    /\ \E gen \in GenOutcomes :
          LET r == question_to_sql(question, model_loaded, gen)
          IN  /\ sql_query' = r.sql
              /\ model_sql' = r.model_sql
              /\ calls' = calls \o r.calls
    /\ printed' = printed \o <<"Generated SQL Query:", "sql_query">>
    /\ pc' = "execute"
    /\ UNCHANGED <<question, columns, rows, limit, model_loaded, exec, result, fetched>>

\* execute_sql: the cursor has a description
ExecuteSqlRows ==
    /\ pc = "execute"
    /\ \E cols \in ColumnLists : \E rws \in RowLists(cols) :
          exec' = [returned |-> TRUE, columns |-> Some(cols), rows |-> Some(rws)]
    /\ calls' = Append(calls, "execute_sql")
    /\ pc' = "check"
    /\ UNCHANGED <<question, columns, rows, limit, fetched, model_loaded, model_sql, sql_query,
                   result, printed>>

\* execute_sql: the cursor has no description
ExecuteSqlNoDescription ==
    /\ pc = "execute"
    /\ \E n \in RowCounts :
          exec' = [returned |-> TRUE, columns |-> Some(<<AffectedRows>>),
                   rows |-> Some(<< <<IntVal(n)>> >>)]
    /\ calls' = Append(calls, "execute_sql")
    /\ pc' = "check"
    /\ UNCHANGED <<question, columns, rows, limit, fetched, model_loaded, model_sql, sql_query,
                   result, printed>>

\* execute_sql: mysql.connector.Error is caught, (None, None) is returned
ExecuteSqlDbError ==
    /\ pc = "execute"
    /\ exec' = [returned |-> TRUE, columns |-> None, rows |-> None]
    /\ calls' = Append(calls, "execute_sql")
    /\ printed' = Append(printed, "Error running query")
    /\ pc' = "check"
    /\ UNCHANGED <<question, columns, rows, limit, fetched, model_loaded, model_sql, sql_query,
                   result>>

\* execute_sql raises and nothing catches it: the exception leaves main
ExecuteSqlRaises_uncaught ==
    /\ pc = "execute"
    /\ calls' = Append(calls, "execute_sql")
    /\ printed' = Append(printed, "Traceback")
    /\ pc' = "done"
    /\ UNCHANGED <<question, columns, rows, limit, fetched, model_loaded, model_sql, sql_query,
                   exec, result>>

\* execute_sql: any other exception leaves it and is caught by the loop
ExecuteSqlRaises ==
    /\ pc = "execute"
    /\ calls' = Append(calls, "execute_sql")
    /\ printed' = printed \o <<"Error", "Please try again with a different question.">>
    /\ pc' = "prompt"
    /\ UNCHANGED <<question, columns, rows, limit, fetched, model_loaded, model_sql, sql_query,
                   exec, result>>

\* if not columns or not rows: the no-data message, and continue
NoData ==
    /\ pc = "check"
    /\ no_data(exec)
    /\ printed' = Append(printed, "No data found for the given query.")
    /\ pc' = "prompt"
    /\ UNCHANGED <<question, columns, rows, limit, fetched, model_loaded, model_sql, sql_query,
                   exec, result, calls>>

\* natural_response = generate_response(user_question, columns, rows), printed;
\* an exception it raises is caught by the loop
Respond ==
    /\ pc = "check"
    /\ ~no_data(exec)
    /\ columns' = exec.columns[1]
    /\ rows' = exec.rows[1]
    /\ \E user_info \in (IF asks_user_details(question) THEN FetchOutcomes ELSE {None}) :
          /\ result' = generate_response(question, columns', rows', user_info)
          /\ fetched' = Fetched(question, user_info)
    /\ calls' = calls \o <<"generate_response">> \o result'.calls
    /\ printed' = IF result'.raised = ""
                  THEN printed \o <<"AI Response:", "natural_response">>
                  ELSE printed \o <<"Error", "Please try again with a different question.">>
    /\ pc' = "prompt"
    /\ UNCHANGED <<question, limit, model_loaded, model_sql, sql_query, exec>>

Next ==
    \/ Quit
    \/ Ask
    \/ QuestionToSql
    \/ ExecuteSqlRows
    \/ ExecuteSqlNoDescription
    \/ ExecuteSqlDbError
    \/ ExecuteSqlRaises
    \/ NoData
    \/ Respond

Spec == Init /\ [][Next]_vars

-----------------------------------------------------------------------------
(* Claims about identify_query_type and generate_response (SpecResponse).    *)

QueryTypes == {"count", "single_entity", "list", "aggregation", "general"}

Templates ==
    {"generate_count_response", "generate_list_response",
     "generate_single_entity_response", "generate_aggregation_response",
     "generate_general_response"}

\* The functions called while the operation ran
Called == {calls[i] : i \in 1..Len(calls)}

\* The cues of the question and of the result that the rules read
HasCountCue == Contains(KwCount, Lower(question)) \/ Contains(KwHowMany, Lower(question))
HasListCue ==
    \/ Contains(KwList, Lower(question))
    \/ Contains(KwShow, Lower(question))
    \/ Contains(KwAll, Lower(question))
HasAggregateColumn ==
    \E i \in 1..Len(columns) :
        \/ StartsWith(Lower(columns[i]), PfxAvg)
        \/ StartsWith(Lower(columns[i]), PfxSum)
        \/ StartsWith(Lower(columns[i]), PfxMax)
        \/ StartsWith(Lower(columns[i]), PfxMin)
HasDetailsCue == Contains(KwDetailsOf, Lower(question))

\* The conditions of rules 1 to 5, each without regard to the rules before it
Rule1 == HasCountCue /\ Len(columns) = 1 /\ Len(rows) = 1
Rule2 == Len(rows) = 1
Rule3 == HasListCue
Rule4 == HasAggregateColumn
Rule5 == Len(rows) > 1

\* C1: identify_query_type returns the label of the first of the six rules,
\* taken in the stated order, whose condition holds, and that label is one of
\* count, single_entity, list, aggregation, general.
C1_FirstMatchChain ==
    pc = "classified" =>
        /\ result.query_type \in QueryTypes
        /\ Rule1 => result.query_type = "count"
        /\ (~Rule1 /\ Rule2) => result.query_type = "single_entity"
        /\ (~Rule1 /\ ~Rule2 /\ Rule3) => result.query_type = "list"
        /\ (~Rule1 /\ ~Rule2 /\ ~Rule3 /\ Rule4) => result.query_type = "aggregation"
        /\ (~Rule1 /\ ~Rule2 /\ ~Rule3 /\ ~Rule4 /\ Rule5) => result.query_type = "list"
        /\ (~Rule1 /\ ~Rule2 /\ ~Rule3 /\ ~Rule4 /\ ~Rule5)
              => result.query_type = "general"

\* C1 witness: a result classified aggregation, which needs rules 1 to 3 to
\* have been passed over
C1_Witness ==
    /\ pc = "classified"
    /\ result.query_type = "aggregation"
    /\ HasCountCue
    /\ Len(rows) > 1

\* C2: a question with "details of" in it is answered by
\* handle_user_details_query; identify_query_type and the five templates do
\* not run, whatever the columns, the rows and the other cues are.
C2_DetailsIntercepts ==
    (pc = "responded" /\ HasDetailsCue) =>
        /\ "handle_user_details_query" \in Called
        /\ "identify_query_type" \notin Called
        /\ Called \cap Templates = {}
        /\ result.query_type = ""
        /\ \/ StartsWith(result.text, NoRecordPrefix)
           \/ StartsWith(result.text, NL \o TxtName)

\* C2 witness: a one-row, one-column answer to a question that has both
\* "details of" and a count cue
C2_Witness ==
    /\ pc = "responded"
    /\ HasDetailsCue
    /\ HasCountCue
    /\ Len(columns) = 1
    /\ Len(rows) = 1
    /\ "handle_user_details_query" \in Called

\* C3 as claimed: with no count cue, the single column avg(stipend) and one
\* row, the label is aggregation.
C3_AvgOneRowIsAggregation ==
    (pc = "classified" /\ ~HasCountCue /\ columns = <<ColAvgStipend>> /\ Len(rows) = 1)
        => result.query_type = "aggregation"

\* C3 amended: with no count cue, the single column avg(stipend) and one row,
\* the label is single_entity, because the one-row rule is tested before the
\* column names are.
C3_AvgOneRowIsSingleEntity ==
    (pc = "classified" /\ ~HasCountCue /\ columns = <<ColAvgStipend>> /\ Len(rows) = 1)
        => result.query_type = "single_entity"

\* C3 witness: the average-stipend question of the demonstration, classified
C3_Witness ==
    /\ pc = "classified"
    /\ question = QWhatAvg
    /\ columns = <<ColAvgStipend>>
    /\ Len(rows) = 1

\* C4 as claimed: a zero-row result is general, or list when the question has
\* a list cue, and nothing else.
C4_ZeroRowsGeneralOrList ==
    (pc = "classified" /\ Len(rows) = 0) =>
        result.query_type = (IF HasListCue THEN "list" ELSE "general")

\* C4 amended: a zero-row result is list when the question has a list cue,
\* else aggregation when a column name starts with avg, sum, max or min, else
\* general; it is never count or single_entity.
C4_ZeroRowsListAggregationOrGeneral ==
    (pc = "classified" /\ Len(rows) = 0) =>
        result.query_type = (IF HasListCue THEN "list"
                             ELSE IF HasAggregateColumn THEN "aggregation"
                             ELSE "general")

\* C4 witness: a zero-row result with an aggregate column and a list cue
C4_Witness ==
    /\ pc = "classified"
    /\ Len(rows) = 0
    /\ HasAggregateColumn
    /\ HasListCue
    /\ result.query_type = "list"

\* Everything in the lower-cased question after the first "details of"
AfterFirstDetailsOf ==
    LET lq == Lower(question)
        at == CHOOSE i \in 1..Len(lq) :
                /\ OccursAt(KwDetailsOf, lq, i)
                /\ \A j \in 1..(i - 1) : ~OccursAt(KwDetailsOf, lq, j)
    IN  SubSeq(lq, at + Len(KwDetailsOf), Len(lq))

\* C5: the name looked up is everything after the first "details of" of the
\* lower-cased question, trimmed, also when "details of" occurs again.
C5_UserNameIsRestOfQuestion ==
    (pc = "responded" /\ HasDetailsCue) =>
        result.user_name = Some(Strip(AfterFirstDetailsOf))

-----------------------------------------------------------------------------
(* Claims about extract_entity_name (SpecEntity).                            *)

HasUserCue == Contains(KwUser, Lower(question)) \/ Contains(KwStudent, Lower(question))
HasInternshipCue ==
    Contains(KwInternship, Lower(question)) \/ Contains(KwJob, Lower(question))
HasApplicationCue ==
    Contains(KwApplication, Lower(question)) \/ Contains(KwApplied, Lower(question))

\* C10: extract_entity_name is users when the question has "user" or
\* "student"; else internships when it has "internship" or "job"; else
\* applications when it has "application" or "applied"; else items.  An
\* earlier rule wins over a later one, and the result is one of the four.
C10_EntityFirstMatch ==
    pc = "named" =>
        /\ result.text \in {EntUsers, EntInternships, EntApplications, EntItems}
        /\ HasUserCue => result.text = EntUsers
        /\ (~HasUserCue /\ HasInternshipCue) => result.text = EntInternships
        /\ (~HasUserCue /\ ~HasInternshipCue /\ HasApplicationCue)
              => result.text = EntApplications
        /\ (~HasUserCue /\ ~HasInternshipCue /\ ~HasApplicationCue)
              => result.text = EntItems

\* C10 witness: "User  applications" named users, rule 1 masking rule 3
C10_Witness ==
    /\ pc = "named"
    /\ question = FragUser \o FragApplications
    /\ HasUserCue
    /\ HasApplicationCue
    /\ result.text = EntUsers

-----------------------------------------------------------------------------
(* Claims about format_tabular_data (SpecTable).                             *)

\* The lines of the text returned
TextLines == Split(result.text, NL)

\* How many data rows a table of len(rows) rows shows under limit
ShownCount == IF Len(rows) <= limit THEN Len(rows) ELSE limit

\* C8: for a non-empty row list and limit >= 0 the text is the header, the
\* separator, exactly min(len(rows), limit) data rows and then, if and only
\* if len(rows) > limit, the line "... and N more rows" with
\* N = len(rows) - limit; for an empty row list it is "No data found.".
C8_RowCountAndTrailer ==
    (pc = "formatted" /\ limit >= 0) =>
        IF rows = <<>>
        THEN result.text = NoDataFound
        ELSE /\ result.raised = ""
             /\ TextLines[1] = result.header
             /\ TextLines[2] = result.separator
             /\ Len(TextLines) = 2 + ShownCount + (IF Len(rows) > limit THEN 1 ELSE 0)
             /\ \A k \in 1..ShownCount : ~StartsWith(TextLines[2 + k], MoreRowsPrefix)
             /\ Len(rows) > limit =>
                   TextLines[Len(TextLines)] =
                       MoreRowsPrefix \o IntStr(Len(rows) - limit) \o MoreRowsSuffix
             /\ Len(rows) <= limit =>
                   \A k \in 1..Len(TextLines) : ~StartsWith(TextLines[k], MoreRowsPrefix)

\* C8 witness: a table cut short by its limit, with data rows shown
C8_Witness ==
    /\ pc = "formatted"
    /\ limit >= 1
    /\ Len(rows) > limit
    /\ Len(TextLines) = 3 + limit

\* The largest of a non-empty set of numbers
MaxOf(S) == CHOOSE m \in S : \A x \in S : x <= m

\* The width the claim gives column i of a table
ClaimedWidth(cols, rws, lim, i) ==
    MaxOf({Len(cols[i])}
          \cup {Len(format_value(rws[r][i])) : r \in {x \in 1..Len(rws) : x <= lim}})

\* C9: each column is as wide as the longest of its header and its formatted
\* values in the first limit rows; a change to a value of a row at index
\* >= limit changes no width, not the header, not the separator (which is as
\* long as the header) and none of the data rows emitted.
C9_HiddenRowsDoNotWiden ==
    [][(pc = "formatted" /\ pc' = "formatted" /\ rows # <<>>
        /\ \A r \in 1..Len(rows) : r <= limit => rows'[r] = rows[r])
       => /\ \A i \in 1..Len(columns) :
                result'.widths[i] = ClaimedWidth(columns, rows', limit, i)
          /\ result'.widths = result.widths
          /\ result'.header = result.header
          /\ result'.separator = result.separator
          /\ Len(result'.separator) = Len(result'.header)
          /\ SubSeq(result'.lines, 1, ShownCount) = SubSeq(result.lines, 1, ShownCount)
          /\ result'.text = result.text]_vars

\* C9 witness: a hidden row holds a value longer than its column is wide
C9_Witness ==
    /\ pc = "formatted"
    /\ limit >= 1
    /\ \E r \in 1..Len(rows) : \E i \in 1..Len(columns) :
          /\ r > limit
          /\ Len(format_value(rows[r][i])) > result.widths[i]

-----------------------------------------------------------------------------
(* Claims about the loop of main and question_to_sql (Spec).                 *)

\* C6: generate_response, and with it the user-detail lookup, is called only
\* when execute_sql returned columns and rows that are neither None nor
\* empty; when it returned (None, None), or no rows, the iteration prints the
\* no-data message and is back at the prompt with generate_response not
\* called.
C6_ResponseOnlyWithData ==
    /\ ("generate_response" \in Called \/ "fetch_user_details" \in Called) =>
          /\ exec.returned
          /\ exec.columns # None /\ exec.columns[1] # <<>>
          /\ exec.rows # None /\ exec.rows[1] # <<>>
    /\ (exec.returned /\ (exec.columns = None \/ exec.rows = None \/ exec.rows = Some(<<>>))) =>
          /\ "generate_response" \notin Called
          /\ pc \in {"check", "prompt"}
          /\ pc = "prompt" =>
                printed[Len(printed)] = "No data found for the given query."

\* C6 witness: a user-details question whose query returned columns and no
\* rows, answered with the no-data message
C6_Witness ==
    /\ pc = "prompt"
    /\ HasDetailsCue
    /\ exec.returned
    /\ exec.columns # None
    /\ exec.rows = Some(<<>>)
    /\ printed[Len(printed)] = "No data found for the given query."

\* C7: question_to_sql returns what generate_sql_with_model returned only
\* when the model and tokenizer are loaded and that is a non-empty string; in
\* every other case it returns "SELECT * FROM user_details;".  It always
\* returns a non-empty string, so the loop always goes on to execute_sql.
C7_SqlFromModelOrConstant ==
    ("question_to_sql" \in Called) =>
        /\ pc # "to_sql"
        /\ sql_query # None
        /\ sql_query[1] # <<>>
        /\ IF model_loaded /\ model_sql # None /\ model_sql[1] # <<>>
           THEN sql_query = model_sql
           ELSE /\ sql_query = Some(RuleBasedSql)
                /\ "generate_advanced_rule_based_sql" \in Called
        /\ "generate_sql_with_model" \in Called <=> model_loaded

\* C7 witness: the model is loaded, was asked, and the constant query is what
\* was returned and executed
C7_Witness ==
    /\ model_loaded
    /\ "generate_sql_with_model" \in Called
    /\ "execute_sql" \in Called
    /\ sql_query = Some(RuleBasedSql)

\* C11: when fetch_user_details returns no record for the name taken from
\* the question, generate_response returns "No record found for " followed
\* by that name as an ordinary value, nothing is raised, and neither
\* identify_query_type nor any of the five templates runs on the columns
\* and rows.
C11_NoRecordMessage ==
    (pc = "responded" /\ fetched.called /\ fetched.info = None) =>
        /\ result.raised = ""
        /\ result.text = NoRecordPrefix \o details_user_name(question)
        /\ calls = <<"generate_response", "handle_user_details_query",
                     "fetch_user_details">>
        /\ "identify_query_type" \notin Called
        /\ Called \cap Templates = {}

\* C11 witness: a "how many ... details of ..." question with one row of
\* one column, which the classifier would have called a count, answered with
\* the no-record message because the lookup found nobody
C11_Witness ==
    /\ pc = "responded"
    /\ fetched = [called |-> TRUE, info |-> None]
    /\ HasCountCue
    /\ Len(columns) = 1
    /\ Len(rows) = 1
    /\ result.text = NoRecordPrefix \o details_user_name(question)

\* Each row has exactly len(columns) values
Rectangular == \A i \in 1..Len(rows) : Len(rows[i]) = Len(columns)

\* C12: on a rectangular result generate_response never indexes outside rows
\* or a row, so no IndexError is raised: generate_count_response, which
\* reads rows[0][0], runs only with exactly one row and exactly one column,
\* and generate_single_entity_response, which reads rows[0][i] for every
\* column index i, runs only with exactly one row.
C12_NoIndexOutsideRows ==
    (pc = "responded" /\ Rectangular) =>
        /\ result.raised = ""
        /\ ("generate_count_response" \in Called) =>
              (Len(rows) = 1 /\ Len(columns) = 1)
        /\ ("generate_single_entity_response" \in Called) =>
              (Len(rows) = 1 /\ Len(rows[1]) = Len(columns))

\* C12 witness: a counting question over one row of two columns, which goes
\* to generate_single_entity_response and reads both values of the row
C12_Witness ==
    /\ pc = "responded"
    /\ Rectangular
    /\ HasCountCue
    /\ Len(columns) = 2
    /\ Len(rows) = 1
    /\ "generate_single_entity_response" \in Called
    /\ result.raised = ""

\* The except clause of the loop ran in this iteration
ErrorCaught ==
    \E i \in 1..Len(printed) : printed[i] = "Please try again with a different question."

====
